---- MODULE Spec2Model ----
(***************************************************************************)
(* Model of the site controller: upstream reporter (sender.py), heartbeat  *)
(* fetcher (control_fetcher.py), control executor (control_executor.py),   *)
(* meter poller (collector_alteo_term1.py), ESS poller                     *)
(* (poll_ess_hithium.py), circuit breaker (breaker.py) and the connection  *)
(* pool (db.py).                                                           *)
(*                                                                         *)
(* Every script is its own process (each has its own __main__), so each    *)
(* process has its own pool and its own breaker table.                     *)
(* SQL NULL and Python None are the value Null; a missing row is NoRow.    *)
(***************************************************************************)
EXTENDS Integers, Sequences, FiniteSets, Bags, TLC

VARIABLES
    clock,        \* wall clock (datetime.now / SQL NOW()), in minutes
    mono,         \* time.monotonic() of the control executor, in seconds
    used,         \* per process: connections checked out of db_pool (pool._used)
    proc,         \* per process: "init" (main not run), "running", "dead"
    inbox,        \* alteo_controls_inbox: pod -> row or NoRow (unique on pod)
    send_log,     \* alteo_send_log: bag of appended rows (append-only)
    snd,          \* sender.py: per pod, the send_sync task of the current cycle
    snd_cycles,   \* sender.py: cycles of main() started so far
    fetch_left,   \* control_fetcher.py: controls of the reply still to be stored
    fetches,      \* control_fetcher.py: controls received so far
    lastOp,       \* history: the most recent upsert on the inbox
    plants,       \* plants table: pod -> plant row (fixed during a run)
    ctl,          \* control_executor.py: per pod, PodControlState, first_run, thread alive
    cyc,          \* history: the most recent iteration of a control_loop
    wire,         \* a value, the registers that carry it and what is decoded from them
    thr,          \* breaker.py: per thread, the call in progress and its result
    failed,       \* breaker.py _failed_plants of each process: key -> time or Null
    plant_data,   \* plant_data_term1: plant -> latest row or NoPcc
    ess_data,     \* ess_data_term1: plant -> latest row or NoEss
    poll,         \* history: the most recent poll cycle (meter) or poll_ess call
    bus,          \* the plant whose logger poll_device has a session to, or NoneStr
    fan           \* poll_ess_hithium.py: the poll_ess tasks of one gather, by stage

inboxVars == <<inbox, send_log, snd, snd_cycles, fetch_left, fetches, lastOp>>
ctlVars == <<plants, ctl, cyc, wire, thr>>
pollVars == <<failed, plant_data, ess_data, poll, bus, fan>>
vars == <<clock, mono, used, proc, inbox, send_log, snd, snd_cycles, fetch_left,
          fetches, lastOp, plants, ctl, cyc, wire, thr, failed, plant_data, ess_data, poll, bus,
          fan>>

\* Null lies outside every value domain of the model.
Null == 0 - 999999

\* None where the other values are strings
NoneStr == "None"

Pods == {"podA", "podB"}
PlantIds == {"plant1", "plant2"}
Procs == {"sender", "fetcher", "executor", "meter", "ess"}

\* ---- bounds of the model ----
MaxRecvClock == 1
MaxHeartbeat == 2
MaxSenderCycles == 1
MaxControls == 1

Heartbeats == 0..MaxHeartbeat
\* sumSetPoint in a reply to the reporter, and in a reply to the fetcher
SetPoints == {200}
FetchedSetPoints == {50}
References == {40}

\* ======================= db.py: the connection pool =======================
minconn == 5
maxconn == 20

\* ThreadedConnectionPool.getconn: one more connection in pool._used
\* (raises PoolError when maxconn are already out; callers test PoolExhausted).
PoolExhausted(u) == u >= maxconn
get_db_connection(u) == u + 1
\* putconn: the connection leaves pool._used
release_db_connection(u) == u - 1
\* connection.close(): closes the socket, pool._used is not touched
conn_close(u) == u

\* ============================ inbox upserts ===============================
\* (the usesetpoint column is written by the fetcher alone and read by no
\* process; it is left out of the rows)
InboxRow(hb, sp, sr, at) ==
    [heartbeat |-> hb, sum_setpoint |-> sp, scheduled_reference |-> sr,
     received_at |-> at]

\* no row for the pod (a stored row always has a received_at)
NoRow == InboxRow(Null, Null, Null, Null)

\* the upsert with `<=` in place of `<` in its WHERE clause
update_heartbeat_inbox_not_strict(row, hb, sp, sr, now) ==
    IF row = NoRow
    THEN InboxRow(hb, sp, sr, now)
    ELSE IF row.heartbeat = Null \/ (hb /= Null /\ row.heartbeat <= hb)
         THEN [row EXCEPT !.heartbeat = hb, !.sum_setpoint = sp,
                          !.scheduled_reference = sr, !.received_at = now]
         ELSE row

\* sender.py update_heartbeat_inbox:
\*   INSERT .. ON CONFLICT (pod) DO UPDATE SET .. received_at = NOW()
\*   WHERE inbox.heartbeat IS NULL OR inbox.heartbeat < EXCLUDED.heartbeat
\* (a comparison with NULL is not true).
update_heartbeat_inbox(row, hb, sp, sr, now) ==
    IF row = NoRow
    THEN InboxRow(hb, sp, sr, now)
    ELSE IF row.heartbeat = Null \/ (hb /= Null /\ row.heartbeat < hb)
         THEN [row EXCEPT !.heartbeat = hb, !.sum_setpoint = sp,
                          !.scheduled_reference = sr, !.received_at = now]
         ELSE row

\* control_fetcher.py update_heartbeat_inbox: the same upsert with no WHERE.
fetcher_update_heartbeat_inbox(row, hb, sp, sr, now) ==
    InboxRow(hb, sp, sr, now)

\* sender.py get_last_heartbeat: row["heartbeat"] if row else None
get_last_heartbeat(row) == IF row = NoRow THEN Null ELSE row.heartbeat

\* Python `x or 1`: None and 0 are both falsy.
or_one(x) == IF x = Null \/ x = 0 THEN 1 ELSE x

\* ============================ sender.py ===================================
SndIdle == [pc |-> "idle", stored |-> Null, mirrored |-> Null]

\* main(): get_latest_plant_data (connection released in finally), then one
\* send_sync task per measurement row on the thread pool.  query_ok = FALSE:
\* the query of get_latest_plant_data raises.
SenderCycleStart ==
    /\ proc["sender"] = "running"
    /\ snd_cycles < MaxSenderCycles
    /\ \A p \in Pods : snd[p].pc = "idle"
    /\ ~PoolExhausted(used["sender"])
    /\ \E query_ok \in BOOLEAN :
          IF query_ok
          THEN /\ \E ms \in (SUBSET Pods) \ {{}} :
                    snd' = [p \in Pods |->
                              IF p \in ms THEN [SndIdle EXCEPT !.pc = "ready"]
                                          ELSE [SndIdle EXCEPT !.pc = "done"]]
               /\ UNCHANGED proc
          ELSE \* the query raises: nothing in main() catches it
               /\ proc' = [proc EXCEPT !["sender"] = "dead"]
               /\ UNCHANGED snd
    /\ snd_cycles' = snd_cycles + 1
    /\ used' = [used EXCEPT !["sender"] = release_db_connection(get_db_connection(@))]
    /\ UNCHANGED <<clock, inbox, send_log, fetch_left, fetches, lastOp>>
    /\ UNCHANGED <<mono, ctlVars, pollVars>>

\* send_sync up to requests.post: heartbeat = get_last_heartbeat(pod) or 1;
\* with an ESS row get_24h_avg_min_max runs (its statement `AVG(column)` is
\* rejected by the store and row[0] is not a key of a RealDictRow), the
\* exception is caught by send_sync's except and nothing is posted.
SendSyncRequest(p) ==
    /\ snd[p].pc = "ready"
    /\ \E has_ess \in BOOLEAN :
          LET stored == get_last_heartbeat(inbox[p])
              heartbeat == or_one(stored)
          IN  snd' = [snd EXCEPT ![p] =
                        IF has_ess
                        THEN [SndIdle EXCEPT !.pc = "done"]
                        ELSE [pc |-> "posted", stored |-> stored, mirrored |-> heartbeat]]
    /\ used' = [used EXCEPT !["sender"] = release_db_connection(get_db_connection(@))]
    /\ UNCHANGED <<clock, inbox, send_log, snd_cycles, fetch_left, fetches, lastOp>>
    /\ UNCHANGED <<mono, proc, ctlVars, pollVars>>

\* What requests.post can give: an exception (transport), or a reply with a
\* status code; a 200 reply may carry a non-empty controls list whose first
\* entry has heartbeat hb (Null when the key is missing) and sumSetPoint sp;
\* the body of another status may carry a controls list as well.
Replies ==
    {[transport |-> TRUE, status |-> Null, controls |-> FALSE, hb |-> Null, sp |-> Null],
     [transport |-> FALSE, status |-> 500, controls |-> FALSE, hb |-> Null, sp |-> Null],
     [transport |-> FALSE, status |-> 200, controls |-> FALSE, hb |-> Null, sp |-> Null]}
    \cup [transport : {FALSE}, status : {200}, controls : {TRUE},
          hb : Heartbeats \cup {Null}, sp : SetPoints]
    \cup [transport : {FALSE}, status : {500}, controls : {TRUE},
          hb : {MaxHeartbeat}, sp : SetPoints]

\* the upsert guard without the status test
should_upsert_any_status(r) == ~r.transport /\ r.controls

\* `if status == 200:` .. `if controls:` (reached only when post returned)
should_upsert(r) == ~r.transport /\ r.status = 200 /\ r.controls

\* send_sync from requests.post on: on status 200 with controls the inbox
\* upsert, then store_alteo_response.  upsert_ok = FALSE: the inbox statement
\* raised; a raised exception (that one or the transport's) is caught by the
\* except of send_sync, which skips store_alteo_response.
SendSyncResponse(p) ==
    /\ snd[p].pc = "posted"
    /\ \E r \in Replies, upsert_ok \in BOOLEAN, sr \in References :
          /\ (~r.controls => upsert_ok)
          /\ LET do_upsert == should_upsert(r)
                 row == update_heartbeat_inbox(inbox[p], r.hb, r.sp, sr, clock)
             IN  /\ inbox' = IF do_upsert /\ upsert_ok
                             THEN [inbox EXCEPT ![p] = row] ELSE inbox
                 /\ lastOp' = IF do_upsert /\ upsert_ok
                              THEN [kind |-> "sender", pod |-> p, hb |-> r.hb,
                                    at |-> clock]
                              ELSE lastOp
                 /\ send_log' = IF r.transport \/ (do_upsert /\ ~upsert_ok)
                                THEN send_log
                                ELSE send_log (+) SetToBag({[pod |-> p,
                                                    status_code |-> r.status]})
    /\ snd' = [snd EXCEPT ![p] = [SndIdle EXCEPT !.pc = "done"]]
    /\ used' = [used EXCEPT !["sender"] = release_db_connection(get_db_connection(@))]
    /\ UNCHANGED <<clock, snd_cycles, fetch_left, fetches>>
    /\ UNCHANGED <<mono, proc, ctlVars, pollVars>>

\* main(): asyncio.gather returned, sleep, next cycle.
SenderCycleEnd ==
    /\ \A p \in Pods : snd[p].pc = "done"
    /\ snd' = [p \in Pods |-> SndIdle]
    /\ UNCHANGED <<clock, used, inbox, send_log, snd_cycles, fetch_left, fetches, lastOp>>
    /\ UNCHANGED <<mono, proc, ctlVars, pollVars>>

\* ========================= control_fetcher.py =============================
\* fetch_initial_heartbeat: POST [], status 200, controls = data["controls"]
\* with n > 0 entries (an empty list or another status stores nothing).
FetcherReceive ==
    /\ fetches < MaxControls
    /\ fetch_left = 0
    /\ \E n \in 1..(MaxControls - fetches) :
          /\ fetch_left' = n
          /\ fetches' = fetches + n
    /\ UNCHANGED <<clock, used, inbox, send_log, snd, snd_cycles, lastOp>>
    /\ UNCHANGED <<mono, proc, ctlVars, pollVars>>

\* one iteration of `for ctrl in controls: update_heartbeat_inbox(...)` on the
\* entry (pod, hb, sp); the connection is closed, never put back.
FetcherStore ==
    /\ fetch_left > 0
    /\ IF PoolExhausted(used["fetcher"])
       THEN \* getconn raises, caught by the except of fetch_initial_heartbeat
            /\ fetch_left' = 0
            /\ UNCHANGED <<used, inbox, lastOp>>
       ELSE \E pod \in Pods, hb \in Heartbeats \cup {Null}, sp \in FetchedSetPoints,
               sr \in References :
            /\ inbox' = [inbox EXCEPT ![pod] =
                    fetcher_update_heartbeat_inbox(@, hb, sp, sr, clock)]
            /\ lastOp' = [kind |-> "fetcher", pod |-> pod, hb |-> hb,
                          at |-> clock]
            /\ used' = [used EXCEPT !["fetcher"] = conn_close(get_db_connection(@))]
            /\ fetch_left' = fetch_left - 1
    /\ UNCHANGED <<clock, send_log, snd, snd_cycles, fetches>>
    /\ UNCHANGED <<mono, proc, ctlVars, pollVars>>

\* ============================= breaker.py =================================
\* A table maps every key to the time of its last failure, Null when the key
\* is not in _failed_plants.  Keys are plant ids (pollers) or pods (executor).
Devices == PlantIds \cup Pods
COOLDOWN_MINUTES == 5

EmptyBreaker == [d \in Devices |-> Null]

\* should_skip: the value returned, and the table it leaves (a stale entry
\* is deleted).
should_skip(t, id, now) == t[id] /= Null /\ now - t[id] < COOLDOWN_MINUTES
should_skip_table(t, id, now) ==
    IF t[id] /= Null /\ ~(now - t[id] < COOLDOWN_MINUTES)
    THEN [t EXCEPT ![id] = Null] ELSE t

on_failure(t, id, now) == [t EXCEPT ![id] = now]
on_success(t, id) == [t EXCEPT ![id] = Null]

\* The threads that call into breaker.py in one process, and a thread that
\* is in no call: op is the function called, pc the statement it is at,
\* result what the call returned or raised.
Threads == {"t1", "t2"}
IdleCall ==
    [op |-> "none", id |-> "podA", pc |-> "idle", entry0 |-> Null,
     last_fail |-> Null, now |-> Null, result |-> "none"]

\* ======================= control_executor.py ==============================
\* Powers are in hundredths of a kW: KP * error is then exact for the
\* readings of the model, which are multiples of 0.1 kW.
DEADBAND_KW == 100
MIN_WRITE_INTERVAL == 4
KP(e) == (3 * e) \div 10

Abs(x) == IF x < 0 THEN 0 - x ELSE x
Max(a, b) == IF a >= b THEN a ELSE b
Min(a, b) == IF a <= b THEN a ELSE b

\* PodControlState.__init__, first_run = True, and the thread running
PodControlState ==
    [last_cmd_kw |-> 0, last_write_ts |-> 0, first_run |-> TRUE, alive |-> TRUE]

\* The plants table: podA is a PV_ONLY plant with a logger of vendor m,
\* podB a PV_ESS plant; both rated 250 kW.
PlantTable(m) ==
    [p \in Pods |->
        IF p = "podA"
        THEN [plant_id |-> "plant1", plant_type |-> "PV_ONLY",
              logger_manufacturer |-> m, normal_power |-> 25000]
        ELSE [plant_id |-> "plant2", plant_type |-> "PV_ESS",
              logger_manufacturer |-> "huawei", normal_power |-> 25000]]
PlantTables == {PlantTable("huawei"), PlantTable("fronius")}

\* get_logger_info: SELECT .. FROM plants WHERE pod_id = %s AND plant_type = 'PV_ONLY'
get_logger_info(plant) ==
    IF plant.plant_type = "PV_ONLY"
    THEN [found |-> TRUE, manufacturer |-> plant.logger_manufacturer,
          pv_rated |-> plant.normal_power]
    ELSE [found |-> FALSE, manufacturer |-> NoneStr, pv_rated |-> Null]

\* get_plant_type: SELECT plant_type FROM plants WHERE pod_id = %s AND plant_type = 'PV_ONLY'
get_plant_type(plant) ==
    IF plant.plant_type = "PV_ONLY" THEN plant.plant_type ELSE NoneStr

\* get_latest_ess_state: no row, or the capacities of the latest ESS row
NoEssState == [present |-> FALSE, cap_ch |-> Null, cap_dis |-> Null]
EssStates ==
    {NoEssState, [present |-> TRUE, cap_ch |-> 0, cap_dis |-> 50],
     [present |-> TRUE, cap_ch |-> 50, cap_dis |-> 0]}

\* the deadband test turned around
in_deadband_flipped(error) == Abs(error) > DEADBAND_KW

\* `abs(error) < DEADBAND_KW`
in_deadband(error) == Abs(error) < DEADBAND_KW

\* `now - state.last_write_ts < MIN_WRITE_INTERVAL`
too_soon(now, last_write_ts) == now - last_write_ts < MIN_WRITE_INTERVAL

\* `(error > 0 and cap_dis > 0) or (error < 0 and cap_ch > 0)`
ess_compatible(error, ess) ==
    (error > 0 /\ ess.cap_dis > 0) \/ (error < 0 /\ ess.cap_ch > 0)

\* the clamp without its upper end
pv_clamp_no_ceiling(new_limit, pv_rated) == Max(0, new_limit)

\* `max(0.0, min(pv_rated, new_limit))`
pv_clamp(new_limit, pv_rated) == Max(0, Min(pv_rated, new_limit))

\* the `if manufacturer.lower() == "huawei" .. elif .. "fronius"` dispatch:
\* the actuator calls made, with the kW value handed to the actuator
\* ok = FALSE: the write_multiple_registers / write_single_register of the
\* actuator fails; the actuators do not look at what the write returns, so
\* nothing is raised.
pv_limit_writes(manufacturer, kw, ok) ==
    IF manufacturer = "huawei"
    THEN <<[actuator |-> "huawei", kw |-> kw, ok |-> ok]>>
    ELSE IF manufacturer = "fronius"
    THEN <<[actuator |-> "fronius", kw |-> kw, ok |-> ok]>>
    ELSE <<>>

\* `max(0, min(100, (target_kw / logger["rated_kw"]) * 100))` without the
\* clamp, then `int(percent)`
fronius_percent_unclamped(target_kw, rated_kw) == (target_kw * 100) \div rated_kw

\* `int(max(0, min(100, (target_kw / logger["rated_kw"]) * 100)))`: the
\* quotient is clamped first and truncated second; the clamped value is never
\* negative, so the truncation is a floor, and the floor of the clamped
\* quotient is the clamp of the floored quotient. The quotient is taken
\* exactly here (the code takes it in binary floating point).
fronius_percent(target_kw, rated_kw) ==
    Max(0, Min(100, (target_kw * 100) \div rated_kw))

\* apply_fronius_pv_limit: the two write_single_register calls in the order
\* they are made. The register map is read from a file at start, so the
\* addresses and the enable value are named, not numbered. enable_ok /
\* limit_ok: what each write returns; the results are not looked at, so the
\* second write is made whatever the first returned.
apply_fronius_pv_limit(logger, target_kw, enable_ok, limit_ok) ==
    << [address |-> "enable_register.address",
        value |-> "enable_register.enable_value", ok |-> enable_ok],
       [address |-> "activePowerLimitPercent.address",
        value |-> fronius_percent(target_kw, logger.rated_kw), ok |-> limit_ok] >>

bootstrap_every_cycle(st, pcc_kw) ==
    IF pcc_kw /= Null
    THEN [st EXCEPT !.last_cmd_kw = pcc_kw, !.first_run = FALSE]
    ELSE st

\* `if first_run and pcc_kw is not None: state.last_cmd_kw = pcc_kw;
\* first_run = False`
bootstrap(st, pcc_kw) ==
    IF st.first_run /\ pcc_kw /= Null
    THEN [st EXCEPT !.last_cmd_kw = pcc_kw, !.first_run = FALSE]
    ELSE st

\* the missing-data test without the target
missing_data_ignoring_target(target_kw, pcc_kw, logger_row, plant_type) ==
    pcc_kw = Null \/ ~logger_row.found \/ plant_type = NoneStr

\* `if None in (target_kw, pcc_kw, logger_row, plant_type)`
missing_data(target_kw, pcc_kw, logger_row, plant_type) ==
    target_kw = Null \/ pcc_kw = Null \/ ~logger_row.found \/ plant_type = NoneStr

IterResult(st, ew, pw, o) ==
    [st |-> st, ess_writes |-> ew, pv_writes |-> pw, outcome |-> o]

\* One iteration of control_loop between get_db_connection and the finally:
\* st is the regulator's state, q what the store and the ESS give in this
\* iteration (target and pcc are the latest inbox and PCC values, Null when
\* there is none; ess the latest ESS state; db_ok = FALSE: a query raises;
\* ess_write_ok = FALSE: write_multiple_registers of write_ess_setpoint fails;
\* pv_write_ok = FALSE: the register write of the PV actuator fails).
\* Outcomes "missing_data", "deadband" and "min_interval" leave by `continue`.
control_iteration(st, plant, q, now) ==
    IF ~q.db_ok THEN IterResult(st, <<>>, <<>>, "error")
    ELSE
    LET st1 == bootstrap(st, q.pcc)
        logger_row == get_logger_info(plant)
        plant_type == get_plant_type(plant)
    IN
    IF missing_data(q.target, q.pcc, logger_row, plant_type)
    THEN IterResult(st1, <<>>, <<>>, "missing_data")
    ELSE
    LET ess == IF plant_type = "PV_ESS" THEN q.ess ELSE NoEssState
        error == q.target - q.pcc
    IN
    IF in_deadband(error) THEN IterResult(st1, <<>>, <<>>, "deadband")
    ELSE IF plant_type = "PV_ESS" /\ ess.present
    THEN IF ess_compatible(error, ess)
         THEN LET new_cmd == st1.last_cmd_kw + KP(error)
              IN  IF too_soon(now, st1.last_write_ts)
                  THEN IterResult(st1, <<>>, <<>>, "min_interval")
                  ELSE IF ~q.ess_write_ok
                  THEN IterResult(st1, <<new_cmd>>, <<>>, "error")
                  ELSE IterResult([st1 EXCEPT !.last_cmd_kw = new_cmd,
                                              !.last_write_ts = now],
                                  <<new_cmd>>, <<>>, "ess")
         ELSE IF error < 0
         THEN IterResult(st1, <<>>,
                         pv_limit_writes(logger_row.manufacturer, q.target,
                                         q.pv_write_ok),
                         "pv_curtail")
         ELSE IterResult(st1, <<>>, <<>>, "no_action")
    ELSE IF plant_type = "PV_ONLY"
    THEN LET new_limit == pv_clamp(st1.last_cmd_kw + KP(error), logger_row.pv_rated)
         IN  IterResult([st1 EXCEPT !.last_cmd_kw = new_limit], <<>>,
                        pv_limit_writes(logger_row.manufacturer, new_limit,
                                        q.pv_write_ok),
                        "pv_only")
    ELSE IterResult(st1, <<>>, <<>>, "no_action")

\* what one iteration can be given
Targets == {0 - 30000, 10050, 30000}
PccReadings == {10000, 26000}
CtlInputs ==
    {[target |-> Null, pcc |-> Null, ess |-> NoEssState, db_ok |-> FALSE,
      ess_write_ok |-> TRUE, pv_write_ok |-> TRUE]}
    \cup [target : Targets \cup {Null}, pcc : PccReadings \cup {Null},
          ess : EssStates, db_ok : {TRUE}, ess_write_ok : BOOLEAN,
          pv_write_ok : {TRUE}]

\* iterations that find a target and a PCC reading, with PV writes that
\* succeed and PV writes that fail
WriteInputs ==
    [target : Targets, pcc : PccReadings, ess : {NoEssState}, db_ok : {TRUE},
     ess_write_ok : {TRUE}, pv_write_ok : BOOLEAN]

NoCycle ==
    [pod |-> "podA", outcome |-> "none", target |-> Null, pcc |-> Null,
     ess |-> NoEssState, db_ok |-> TRUE, now |-> 0, before |-> PodControlState,
     ess_writes |-> <<>>, pv_writes |-> <<>>, slept |-> FALSE,
     meter_session |-> NoneStr]

\* main(): one connection for the pod query (closed, never put back), then
\* one control_loop thread per pod.
ExecutorStart ==
    /\ proc["executor"] = "init"
    /\ proc' = [proc EXCEPT !["executor"] = "running"]
    /\ used' = [used EXCEPT !["executor"] = conn_close(get_db_connection(@))]
    /\ UNCHANGED <<clock, mono, inboxVars, ctlVars, pollVars>>

\* One iteration of control_loop(p), its inputs drawn from ins.
\* get_db_connection is called outside the try: a PoolError ends the thread.
\* The finally closes the connection and never puts it back.  on_success(p)
\* runs when the try block reaches its end.  Nothing is asked of any other
\* process before the writes: cyc.meter_session is the session the meter
\* poller has open while they are made.
ControlCycle(p, ins) ==
    /\ proc["executor"] = "running"
    /\ ctl[p].alive
    /\ IF PoolExhausted(used["executor"])
       THEN /\ ctl' = [ctl EXCEPT ![p].alive = FALSE]
            /\ UNCHANGED <<used, cyc, failed>>
       ELSE \E q \in ins :
            LET r == control_iteration(ctl[p], plants[p], q, mono)
                reached_end == r.outcome \in {"ess", "pv_curtail", "pv_only", "no_action"}
            IN  /\ ctl' = [ctl EXCEPT ![p] = r.st]
                /\ cyc' = [pod |-> p, outcome |-> r.outcome, target |-> q.target,
                           pcc |-> q.pcc, ess |-> q.ess, db_ok |-> q.db_ok,
                           now |-> mono, before |-> ctl[p],
                           ess_writes |-> r.ess_writes, pv_writes |-> r.pv_writes,
                           slept |-> r.outcome \notin {"missing_data", "deadband",
                                                       "min_interval"},
                           meter_session |-> bus]
                /\ failed' = IF reached_end
                             THEN [failed EXCEPT !["executor"] = on_success(@, p)]
                             ELSE failed
                /\ used' = [used EXCEPT !["executor"] = conn_close(get_db_connection(@))]
    /\ UNCHANGED <<clock, mono, proc, plants, wire, thr, inboxVars, plant_data,
                   ess_data, poll, bus, fan>>

TickMono(max) ==
    /\ mono < max
    /\ mono' = mono + 1
    /\ UNCHANGED <<clock, used, proc, inboxVars, ctlVars, pollVars>>

\* ===================== collector_alteo_term1.py ===========================
\* What poll_device gives collect_plant_data for one plant: an exception
\* (exc), or the two decoded values, both Null when the read returned no
\* registers (read_holding_registers returns None and nothing is raised).
\* cos_phi is in hundredths; 150 is what a Fronius pair (150, scale factor -2)
\* or a Huawei register of 1500 with gain 1000 decodes to.
MeterReadings ==
    {[exc |-> TRUE, sap |-> Null, cos_phi |-> Null],
     [exc |-> FALSE, sap |-> Null, cos_phi |-> Null],
     [exc |-> FALSE, sap |-> 0, cos_phi |-> 100],
     [exc |-> FALSE, sap |-> 15000, cos_phi |-> 95],
     [exc |-> FALSE, sap |-> 15000, cos_phi |-> 150]}

PodOf(tbl, plant) == CHOOSE p \in Pods : tbl[p].plant_id = plant

\* Python truthiness of a number or None
truthy(x) == x /= Null /\ x /= 0

\* the record dict built by collect_plant_data
collect_record(tbl, pid, rd, now) ==
    [plant_id |-> pid, pod_id |-> PodOf(tbl, pid), timestamp |-> now,
     sum_active_power |-> rd.sap, cos_phi |-> rd.cos_phi,
     available_power_min |-> 0,
     available_power_max |-> IF truthy(rd.sap) THEN Abs(rd.sap) ELSE Null,
     reference_power |-> IF truthy(rd.sap) THEN Abs(rd.sap) ELSE Null,
     ghi |-> Null, panel_temp |-> Null]

\* the keys store_term1_data._insert reads from every record
InsertKeys ==
    {"plant_id", "pod_id", "timestamp", "sum_active_power", "phi_deg",
     "available_power_min", "available_power_max", "reference_power",
     "ghi", "panel_temp"}

\* _insert raises KeyError when a record lacks a key it reads
insert_raises(records) == \E r \in records : ~(InsertKeys \subseteq DOMAIN r)

\* the row _insert writes for a record
insert_row(r) ==
    [plant_id |-> r.plant_id, pod_id |-> r.pod_id, measured_at |-> r.timestamp,
     sum_active_power |-> r.sum_active_power, cos_phi |-> r.phi_deg,
     available_power_min |-> r.available_power_min,
     available_power_max |-> r.available_power_max,
     reference_power |-> r.reference_power]

NoPcc ==
    [plant_id |-> NoneStr, pod_id |-> NoneStr, measured_at |-> Null,
     sum_active_power |-> Null, cos_phi |-> Null, available_power_min |-> Null,
     available_power_max |-> Null, reference_power |-> Null]

NoPoll ==
    [proc |-> "none", opened |-> {}, hot |-> {}, read_failed |-> {},
     read_ok |-> {}, recorded |-> {}, stored |-> {}, handed |-> {}, dup |-> FALSE,
     reading |-> [temps_ok |-> FALSE, total |-> Null, soc |-> Null,
                  min_soc |-> Null, max_soc |-> Null]]

\* main() before the loop: get_plants_and_ess (connection closed, never put back)
MeterStart ==
    /\ proc["meter"] = "init"
    /\ proc' = [proc EXCEPT !["meter"] = "running"]
    /\ used' = [used EXCEPT !["meter"] = conn_close(get_db_connection(@))]
    /\ UNCHANGED <<clock, mono, inboxVars, ctlVars, pollVars>>

\* One iteration of main()'s loop: a collect_plant_data task per plant that
\* should_skip lets through, then store_term1_data on the records returned.
\* An exception of store_term1_data leaves main().
MeterCycle ==
    /\ proc["meter"] = "running"
    /\ \E rd \in [PlantIds -> MeterReadings] :
          LET t0 == failed["meter"]
              polled == {p \in PlantIds : ~should_skip(t0, p, clock)}
              t1 == [d \in Devices |-> should_skip_table(t0, d, clock)[d]]
              t2 == [d \in Devices |->
                        IF d \notin polled THEN t1[d]
                        ELSE IF rd[d].exc THEN on_failure(t1, d, clock)[d]
                        ELSE on_success(t1, d)[d]]
              valid == {collect_record(plants, p, rd[p], clock) :
                            p \in {x \in polled : ~rd[x].exc}}
              exhausted == PoolExhausted(used["meter"])
              raises == valid /= {} /\ (exhausted \/ insert_raises(valid))
              stored == IF valid = {} \/ raises THEN {} ELSE valid
          IN  /\ failed' = [failed EXCEPT !["meter"] = t2]
              /\ used' = IF valid /= {} /\ ~exhausted
                         THEN [used EXCEPT !["meter"] = conn_close(get_db_connection(@))]
                         ELSE used
              /\ plant_data' =
                    [p \in PlantIds |->
                        IF \E r \in stored : r.plant_id = p
                        THEN insert_row(CHOOSE r \in stored : r.plant_id = p)
                        ELSE plant_data[p]]
              /\ proc' = IF raises THEN [proc EXCEPT !["meter"] = "dead"] ELSE proc
              /\ poll' = [proc |-> "meter", opened |-> polled,
                          hot |-> {p \in polled : should_skip(t0, p, clock)},
                          read_failed |-> {p \in polled : ~rd[p].exc /\ rd[p].sap = Null},
                          read_ok |-> {p \in polled : ~rd[p].exc /\ rd[p].sap /= Null},
                          recorded |-> {p \in polled : t2[p] = clock /\ rd[p].exc},
                          stored |-> {r.plant_id : r \in stored},
                          handed |-> valid, dup |-> FALSE,
                          reading |-> NoPoll.reading]
    /\ UNCHANGED <<clock, mono, inboxVars, ctlVars, ess_data, bus, fan>>

\* poll_device(pid), first half: the ModbusClient (auto_open) connects to the
\* logger of a plant that should_skip lets through and sends its read.  The
\* call blocks the event loop, so the poller has one session at a time.  The
\* control executor is another process; nothing of it is consulted.
MeterSessionOpen(pid) ==
    /\ proc["meter"] = "running"
    /\ bus = NoneStr
    /\ ~should_skip(failed["meter"], pid, clock)
    /\ bus' = pid
    /\ UNCHANGED <<clock, mono, used, proc, inboxVars, ctlVars, failed,
                   plant_data, ess_data, poll, fan>>

\* poll_device(pid), second half: the reply (or the timeout) arrives and
\* auto_close ends the session.
MeterSessionClose ==
    /\ bus /= NoneStr
    /\ bus' = NoneStr
    /\ UNCHANGED <<clock, mono, used, proc, inboxVars, ctlVars, failed,
                   plant_data, ess_data, poll, fan>>

\* ========================= poll_ess_hithium.py ============================
EssUnits == {"plant2"}

\* What poll_single_ess reads: totalCapacity (kWh), averageCurrentSOC,
\* allowedMinSOC, allowedMaxSOC (percent), each Null when its registers could
\* not be read (read_registers raised, raw[key] = []); temps_ok = FALSE when
\* the temperature vectors could not.
NoEssReading ==
    [temps_ok |-> FALSE, total |-> Null, soc |-> Null, min_soc |-> Null,
     max_soc |-> Null]
EssReadings ==
    {NoEssReading,
     [temps_ok |-> TRUE, total |-> 100, soc |-> 20, min_soc |-> Null,
      max_soc |-> Null]}
    \cup [temps_ok : BOOLEAN, total : {100}, soc : {20, 95}, min_soc : {10},
          max_soc : {90}]

\* the readings of one unit over the range of its registers: SOC limits
\* up to and above 100, a full and an empty battery, no capacity at all
WideEssReadings ==
    [temps_ok : {TRUE}, total : {0, 100}, soc : {0, 20, 100},
     min_soc : {0, 60}, max_soc : {40, 100, 120}]

\* `for k in ("totalCapacity", "averageCurrentSOC", "allowedMinSOC",
\* "allowedMaxSOC"): if not raw.get(k) ..: raise`
missing_required(rd) ==
    rd.total = Null \/ rd.soc = Null \/ rd.min_soc = Null \/ rd.max_soc = Null

calculate_capacity_no_floor(total_kwh, soc, min_soc, max_soc) ==
    LET current == (total_kwh * soc) \div 100
    IN  [charge |-> (total_kwh * max_soc) \div 100 - current,
         discharge |-> current - (total_kwh * min_soc) \div 100]

\* calculate_capacity (the readings of the model divide exactly)
calculate_capacity(total_kwh, soc, min_soc, max_soc) ==
    LET current == (total_kwh * soc) \div 100
        charge == (total_kwh * max_soc) \div 100 - current
        discharge == current - (total_kwh * min_soc) \div 100
    IN  [charge |-> Max(charge, 0), discharge |-> Max(discharge, 0)]

NoEss ==
    [measured_at |-> Null, temps |-> FALSE, charge_kwh |-> Null,
     discharge_kwh |-> Null, soc |-> Null, min_soc |-> Null, max_soc |-> Null]

\* main() before the loop: the ess_units query (connection closed, never put back)
EssStart ==
    /\ proc["ess"] = "init"
    /\ proc' = [proc EXCEPT !["ess"] = "running"]
    /\ used' = [used EXCEPT !["ess"] = conn_close(get_db_connection(@))]
    /\ UNCHANGED <<clock, mono, inboxVars, ctlVars, pollVars>>

\* `INSERT INTO .. VALUES ..` with no ON CONFLICT clause, on a table whose
\* (plant_id, measured_at) is unique: the statement raises when the key of
\* the new row is in the table already (dup).
insert_conflict_raises(dup) == dup

\* poll_ess(e): poll_single_ess opens the session whatever the breaker says
\* (the should_skip test is commented out); without the required values it
\* raises; then the insert on a pool connection (closed, never put back) and
\* on_success; any exception is caught and recorded by on_failure.
\* dup = TRUE: the table holds a row with the key of the row to insert.
\* The reading is drawn from readings.
PollEss(e, readings) ==
    /\ proc["ess"] = "running"
    /\ \E rd \in readings, dup \in BOOLEAN :
          LET t0 == failed["ess"]
              required_ok == ~missing_required(rd)
              inserting == required_ok /\ ~PoolExhausted(used["ess"])
              raised == ~inserting \/ insert_conflict_raises(dup)
              cap == calculate_capacity(rd.total, rd.soc, rd.min_soc, rd.max_soc)
          IN  /\ failed' = [failed EXCEPT !["ess"] =
                                IF raised THEN on_failure(t0, e, clock)
                                          ELSE on_success(t0, e)]
              /\ ess_data' = IF raised THEN ess_data
                             ELSE [ess_data EXCEPT ![e] =
                                    [measured_at |-> clock, temps |-> rd.temps_ok,
                                     charge_kwh |-> cap.charge,
                                     discharge_kwh |-> cap.discharge,
                                     soc |-> rd.soc, min_soc |-> rd.min_soc,
                                     max_soc |-> rd.max_soc]]
              /\ used' = IF inserting
                         THEN [used EXCEPT !["ess"] = conn_close(get_db_connection(@))]
                         ELSE used
              /\ poll' = [proc |-> "ess", opened |-> {e},
                          hot |-> IF should_skip(t0, e, clock) THEN {e} ELSE {},
                          read_failed |-> IF required_ok THEN {} ELSE {e},
                          read_ok |-> IF required_ok THEN {e} ELSE {},
                          recorded |-> IF raised THEN {e} ELSE {},
                          stored |-> IF raised THEN {} ELSE {e},
                          handed |-> {}, dup |-> inserting /\ dup,
                          reading |-> rd]
    /\ UNCHANGED <<clock, mono, proc, inboxVars, ctlVars, plant_data, bus, fan>>

\* ============ poll_ess_hithium.py, the tasks of one gather ================
\* main() makes one poll_ess coroutine per active unit and gathers them.  Each
\* coroutine hands poll_single_ess to the default executor of the loop
\* (`run_in_executor(None, ..)`) and, once it has the data, runs the insert and
\* the breaker call itself, on the thread of the event loop.  The stages are
\* counted here; the rows and the breaker entries are those of PollEss.
MaxEssFanout == 12

\* the number of active ess_units rows main() finds
EssFleets == {1, 3, MaxEssFanout}

\* os.cpu_count() of the host
CpuCounts == {2, 8}

\* the size of the thread pool behind `run_in_executor(None, ..)`: asyncio
\* makes a ThreadPoolExecutor() with no max_workers, which takes
\* min(32, os.cpu_count() + 4)
default_workers(cpus) == Min(32, cpus + 4)

\* units: the units main() found; queued: poll_single_ess calls submitted and
\* not started; open: calls running in a worker thread, each with a
\* ModbusClient session to its unit; returned: calls over (data or
\* exception) whose coroutine has not resumed; loop_io: what the thread of the
\* event loop is blocked in; finished: coroutines over.
NoFan == [units |-> 0, cpus |-> 0, queued |-> 0, open |-> 0, returned |-> 0,
          loop_io |-> "none", finished |-> 0]

\* main() up to the loop: the unit list is read on a pool connection, which is
\* closed; the host has some number of CPUs.
EssMain ==
    /\ proc["ess"] = "init"
    /\ proc' = [proc EXCEPT !["ess"] = "running"]
    /\ used' = [used EXCEPT !["ess"] = conn_close(get_db_connection(@))]
    /\ \E n \in EssFleets, c \in CpuCounts :
          fan' = [NoFan EXCEPT !.units = n, !.cpus = c]
    /\ UNCHANGED <<clock, mono, inboxVars, ctlVars, failed, plant_data, ess_data,
                   poll, bus>>

\* `tasks = [poll_ess(e, hithium_map) for e in ess_units]` and the start of
\* `asyncio.gather(*tasks)`: every coroutine runs to its run_in_executor, so
\* every unit's poll_single_ess is submitted before any result is looked at.
\* No semaphore or other limit stands between the list and the executor.
EssGather ==
    /\ proc["ess"] = "running"
    /\ fan.units > 0
    /\ fan.queued = 0 /\ fan.open = 0 /\ fan.returned = 0
    /\ fan.loop_io = "none"
    /\ fan.finished \in {0, fan.units}
    /\ fan' = [fan EXCEPT !.queued = fan.units, !.finished = 0]
    /\ UNCHANGED <<clock, mono, used, proc, inboxVars, ctlVars, failed,
                   plant_data, ess_data, poll, bus>>

\* a worker thread of the executor takes a submitted poll_single_ess: the
\* ModbusClient (auto_open) connects to the unit and reads
EssWorkerStart ==
    /\ fan.queued > 0
    /\ fan.open < default_workers(fan.cpus)
    /\ fan' = [fan EXCEPT !.queued = @ - 1, !.open = @ + 1]
    /\ UNCHANGED <<clock, mono, used, proc, inboxVars, ctlVars, failed,
                   plant_data, ess_data, poll, bus>>

\* poll_single_ess returns its dict or raises; the session is closed
EssWorkerDone ==
    /\ fan.open > 0
    /\ fan' = [fan EXCEPT !.open = @ - 1, !.returned = @ + 1]
    /\ UNCHANGED <<clock, mono, used, proc, inboxVars, ctlVars, failed,
                   plant_data, ess_data, poll, bus>>

\* the coroutine resumes on the thread of the event loop: with an exception
\* it goes to on_failure and is over; with data it calls get_db_connection,
\* execute and commit there, which block that thread.
EssResume ==
    /\ fan.returned > 0
    /\ fan.loop_io = "none"
    /\ \E raised \in BOOLEAN :
          fan' = IF raised
                 THEN [fan EXCEPT !.returned = @ - 1, !.finished = @ + 1]
                 ELSE [fan EXCEPT !.returned = @ - 1, !.loop_io = "store_write"]
    /\ UNCHANGED <<clock, mono, used, proc, inboxVars, ctlVars, failed,
                   plant_data, ess_data, poll, bus>>

\* the insert is over (committed, or raised and caught); on_success or
\* on_failure, and the coroutine is over
EssStoreDone ==
    /\ fan.loop_io = "store_write"
    /\ fan' = [fan EXCEPT !.loop_io = "none", !.finished = @ + 1]
    /\ UNCHANGED <<clock, mono, used, proc, inboxVars, ctlVars, failed,
                   plant_data, ess_data, poll, bus>>

\* ================== breaker.py, statement by statement ====================
\* The table is the _failed_plants of the control executor's process, whose
\* control_loop threads share it.  A thread switch can fall between any two
\* statements of a function; each statement below is one step.
within_cooldown_inclusive(last_fail, now) == now - last_fail <= COOLDOWN_MINUTES

\* `datetime.now() - last_fail < timedelta(minutes=COOLDOWN_MINUTES)`
within_cooldown(last_fail, now) == now - last_fail < COOLDOWN_MINUTES

BreakerOps == {"should_skip", "on_failure", "on_success"}

\* the call returns (or raises) res
Returned(c, res) == [c EXCEPT !.pc = "idle", !.result = res]

\* Thread t calls op(id) and executes its first statement:
\*   should_skip: `if plant_id not in _failed_plants: return False`
\*   on_failure:  `_failed_plants[plant_id] = datetime.now()`
\*   on_success:  `if plant_id in _failed_plants:`
BreakerCall(t) ==
    /\ thr[t].pc = "idle"
    /\ \E op \in BreakerOps, id \in Pods :
          LET tbl == failed["executor"]
              c == [op |-> op, id |-> id, pc |-> "idle", entry0 |-> tbl[id],
                    last_fail |-> Null, now |-> Null, result |-> "none"]
          IN  IF op = "on_failure"
              THEN /\ failed' = [failed EXCEPT !["executor"] = on_failure(tbl, id, clock)]
                   /\ thr' = [thr EXCEPT ![t] = [c EXCEPT !.pc = "print", !.now = clock]]
              ELSE /\ UNCHANGED failed
                   /\ thr' = [thr EXCEPT ![t] =
                                IF tbl[id] = Null
                                THEN Returned(c, IF op = "should_skip" THEN "False" ELSE "None")
                                ELSE [c EXCEPT !.pc = IF op = "should_skip"
                                                     THEN "lookup" ELSE "delete"]]
    /\ UNCHANGED <<clock, mono, used, proc, inboxVars, plants, ctl, cyc, wire,
                   plant_data, ess_data, poll, bus, fan>>

\* Thread t executes the next statement of its call:
\*   lookup:  `last_fail = _failed_plants[plant_id]`           (should_skip)
\*   compare: `if datetime.now() - last_fail < ..: return True` (should_skip)
\*   delete:  `del _failed_plants[plant_id]`  (should_skip, then `return False`;
\*            on_success)
\*   print:   `print(f".. {_failed_plants[plant_id]}")`         (on_failure)
\* A subscript or a del on a key that is not in the dict raises KeyError.
BreakerStep(t) ==
    /\ thr[t].pc /= "idle"
    /\ LET c == thr[t]
           tbl == failed["executor"]
           absent == tbl[c.id] = Null
       IN  IF c.pc = "lookup"
           THEN /\ thr' = [thr EXCEPT ![t] =
                             IF absent THEN Returned(c, "KeyError")
                             ELSE [c EXCEPT !.pc = "compare", !.last_fail = tbl[c.id]]]
                /\ UNCHANGED failed
           ELSE IF c.pc = "compare"
           THEN /\ thr' = [thr EXCEPT ![t] =
                             IF within_cooldown(c.last_fail, clock)
                             THEN Returned([c EXCEPT !.now = clock], "True")
                             ELSE [c EXCEPT !.pc = "delete", !.now = clock]]
                /\ UNCHANGED failed
           ELSE IF c.pc = "delete"
           THEN /\ thr' = [thr EXCEPT ![t] =
                             IF absent THEN Returned(c, "KeyError")
                             ELSE Returned(c, IF c.op = "should_skip"
                                              THEN "False" ELSE "None")]
                /\ failed' = [failed EXCEPT !["executor"] = on_success(tbl, c.id)]
           ELSE /\ thr' = [thr EXCEPT ![t] =
                             Returned(c, IF absent THEN "KeyError" ELSE "None")]
                /\ UNCHANGED failed
    /\ UNCHANGED <<clock, mono, used, proc, inboxVars, plants, ctl, cyc, wire,
                   plant_data, ess_data, poll, bus, fan>>

\* ========================= register encoding ==============================
\* 0x10000 and 0x8000.  A 32-bit raw value is handled as its two 16-bit
\* words, high word first, so that no intermediate value needs more than
\* 32 bits.
Word == 65536
SignBit == 32768
Int32Max == 2147483647
Int32Min == (0 - Int32Max) - 1

huawei_regs_low_word_first(raw, signed) == <<raw % Word, (raw \div Word) % Word>>

\* apply_huawei_pv_limit: `if meta.get("signed") and raw < 0:
\* raw = (1 << 32) + raw` then `regs = [(raw >> 16) & 0xFFFF, raw & 0xFFFF]`.
\* Adding 1 << 32 adds 1 << 16 to raw >> 16 and leaves raw & 0xFFFF; >> rounds
\* down, as \div does.
huawei_regs(raw, signed) ==
    LET hi == IF signed /\ raw < 0 THEN raw \div Word + Word ELSE raw \div Word
    IN  <<hi % Word, raw % Word>>

\* convert_registers_to_scaled_value; `raw & 0x8000` (`raw & 0x80000000`) is
\* the top bit of the first register.  raw / gain is exact for the gains
\* used here.
convert_registers_to_scaled_value(registers, gain, signed) ==
    IF Len(registers) = 1
    THEN LET raw == IF signed /\ registers[1] >= SignBit
                    THEN registers[1] - Word ELSE registers[1]
         IN  raw \div gain
    ELSE IF Len(registers) = 2
    THEN LET hi == IF signed /\ registers[1] >= SignBit
                   THEN registers[1] - Word ELSE registers[1]
         IN  (hi * Word + registers[2]) \div gain
    ELSE Null

\* rated: the rated_kw of the logger a Fronius actuation was made for
NoWire == [v |-> 0, rated |-> Null, regs |-> <<>>, decoded |-> FALSE, out |-> Null]

\* the values put on the wire: the ends of the 32-bit and 16-bit ranges,
\* the word boundaries and the values around 0
WireValues ==
    {Int32Min, Int32Min + 1, Int32Max - 1, Int32Max,
     0 - 65537, 0 - 65536, 0 - 65535, 0 - 32769, 0 - 32768, 0 - 32767,
     0 - 257, 0 - 256, 0 - 255, 255, 256, 257,
     32767, 32768, 32769, 65535, 65536, 65537}
    \cup ((0 - 8)..8)

\* apply_huawei_pv_limit with a signed descriptor of gain 1: raw = v goes out
\* as two registers.
HuaweiWrite ==
    /\ \E v \in WireValues :
          wire' = [NoWire EXCEPT !.v = v, !.regs = huawei_regs(v, TRUE)]
    /\ UNCHANGED <<clock, mono, used, proc, inboxVars, plants, ctl, cyc, thr, pollVars>>

\* a device holds a signed 16-bit value in one register: its low word
RegisterHolds ==
    /\ \E v \in {w \in WireValues : 0 - SignBit <= w /\ w < SignBit} :
          wire' = [NoWire EXCEPT !.v = v, !.regs = <<v % Word>>]
    /\ UNCHANGED <<clock, mono, used, proc, inboxVars, plants, ctl, cyc, thr, pollVars>>

\* poll_device decodes the registers read (signed, gain 1)
RegistersDecoded ==
    /\ wire.regs /= <<>>
    /\ ~wire.decoded
    /\ wire' = [wire EXCEPT !.decoded = TRUE,
                            !.out = convert_registers_to_scaled_value(wire.regs, 1, TRUE)]
    /\ UNCHANGED <<clock, mono, used, proc, inboxVars, plants, ctl, cyc, thr, pollVars>>

\* the limits commanded to a Fronius logger, in hundredths of kW: below 0,
\* 0, a fraction of a percent, around the rated powers, far above them
FroniusTargets ==
    {0 - 5000, 0 - 1, 0, 1, 249, 250, 12500, 24999, 25000, 25001, 30000,
     50000, 100000}

\* the rated powers of the logger (loggers.normal_power), all positive
FroniusRated == {1, 100, 25000, 50000}

\* apply_fronius_pv_limit(logger, target_kw), from either call site
FroniusWrite ==
    /\ \E kw \in FroniusTargets, rated \in FroniusRated, e_ok, l_ok \in BOOLEAN :
          wire' = [NoWire EXCEPT
                     !.v = kw, !.rated = rated,
                     !.regs = apply_fronius_pv_limit([rated_kw |-> rated], kw,
                                                     e_ok, l_ok)]
    /\ UNCHANGED <<clock, mono, used, proc, inboxVars, plants, ctl, cyc, thr, pollVars>>

\* ============================== time ======================================
Tick(max) ==
    /\ clock < max
    /\ clock' = clock + 1
    /\ UNCHANGED <<mono, used, proc, inboxVars, ctlVars, pollVars>>

\* ============================ specifications ==============================
MaxPollClock == 6
MaxMono == 4
MaxCtlCycles == 2
MaxEssPolls == 3

InitProcesses ==
    /\ clock = 0
    /\ mono = 0
    /\ used = [q \in Procs |-> 0]
    /\ proc = [q \in Procs |-> IF q \in {"executor", "meter", "ess"}
                               THEN "init" ELSE "running"]
    /\ send_log = EmptyBag
    /\ snd = [p \in Pods |-> SndIdle]
    /\ snd_cycles = 0
    /\ fetch_left = 0
    /\ fetches = 0
    /\ lastOp = [kind |-> "none", pod |-> "podA", hb |-> Null, at |-> 0]
    /\ ctl = [p \in Pods |-> PodControlState]
    /\ cyc = NoCycle
    /\ wire = NoWire
    /\ thr = [t \in Threads |-> IdleCall]
    /\ failed = [q \in {"executor", "meter", "ess"} |-> EmptyBreaker]
    /\ plant_data = [p \in PlantIds |-> NoPcc]
    /\ ess_data = [p \in PlantIds |-> NoEss]
    /\ poll = NoPoll
    /\ bus = NoneStr
    /\ fan = NoFan

Init ==
    /\ InitProcesses
    /\ inbox = [p \in Pods |-> NoRow]
    /\ plants \in PlantTables

\* the reporter and the heartbeat fetcher, on the inbox and the send log
NextInbox ==
    \/ SenderCycleStart
    \/ \E p \in Pods : SendSyncRequest(p)
    \/ \E p \in Pods : SendSyncResponse(p)
    \/ SenderCycleEnd
    \/ FetcherReceive
    \/ FetcherStore
    \/ Tick(MaxRecvClock)

\* the control executor
NextCtl ==
    \/ ExecutorStart
    \/ \E p \in Pods : used["executor"] <= MaxCtlCycles /\ ControlCycle(p, CtlInputs)
    \/ TickMono(MaxMono)

\* the meter poller and the ESS poller
NextPoll ==
    \/ MeterStart
    \/ MeterCycle
    \/ EssStart
    \/ \E e \in EssUnits : used["ess"] <= MaxEssPolls /\ PollEss(e, EssReadings)
    \/ Tick(MaxPollClock)

Next == NextInbox \/ NextCtl \/ NextPoll

Spec == Init /\ [][Next]_vars

InitInbox ==
    /\ InitProcesses
    /\ inbox = [p \in Pods |-> NoRow]
    /\ plants = PlantTable("huawei")
SpecInbox == InitInbox /\ [][NextInbox]_vars

InitCtl ==
    /\ InitProcesses
    /\ inbox = [p \in Pods |-> NoRow]
    /\ plants \in PlantTables
SpecCtl == InitCtl /\ [][NextCtl]_vars

InitPoll ==
    /\ InitProcesses
    /\ inbox = [p \in Pods |-> NoRow]
    /\ plants = PlantTable("huawei")
SpecPoll == InitPoll /\ [][NextPoll]_vars

\* The control executor run until its pool gives out: iterations that find
\* no target (or whose query raises), any number of them.
PoolInputs ==
    {q \in CtlInputs : q.target = Null /\ q.ess = NoEssState /\ q.ess_write_ok}

NextPool ==
    \/ ExecutorStart
    \/ \E p \in Pods : ControlCycle(p, PoolInputs)

InitPool ==
    /\ InitProcesses
    /\ inbox = [p \in Pods |-> NoRow]
    /\ plants = PlantTable("huawei")
SpecPool == InitPool /\ [][NextPool]_vars

\* The control executor with field-bus writes that fail.
NextWrites ==
    \/ ExecutorStart
    \/ \E p \in Pods : used["executor"] <= MaxCtlCycles /\ ControlCycle(p, WriteInputs)

InitWrites ==
    /\ InitProcesses
    /\ inbox = [p \in Pods |-> NoRow]
    /\ plants \in PlantTables
SpecWrites == InitWrites /\ [][NextWrites]_vars

\* One thread calling into breaker.py while time passes.
NextBreakerSeq ==
    \/ BreakerCall("t1")
    \/ BreakerStep("t1")
    \/ Tick(MaxPollClock)

InitBreaker ==
    /\ InitProcesses
    /\ inbox = [p \in Pods |-> NoRow]
    /\ plants = PlantTable("huawei")
SpecBreakerSeq == InitBreaker /\ [][NextBreakerSeq]_vars

\* The threads of one process calling into breaker.py.
NextBreaker ==
    \/ \E t \in Threads : BreakerCall(t)
    \/ \E t \in Threads : BreakerStep(t)

SpecBreaker == InitBreaker /\ [][NextBreaker]_vars

\* Values written as registers and read back.
NextWire ==
    \/ HuaweiWrite
    \/ RegisterHolds
    \/ RegistersDecoded

InitWire ==
    /\ InitProcesses
    /\ inbox = [p \in Pods |-> NoRow]
    /\ plants = PlantTable("huawei")
SpecWire == InitWire /\ [][NextWire]_vars

\* The Fronius actuator on commanded limits and rated powers.
NextFronius == FroniusWrite

InitFronius ==
    /\ InitProcesses
    /\ inbox = [p \in Pods |-> NoRow]
    /\ plants = PlantTable("fronius")
SpecFronius == InitFronius /\ [][NextFronius]_vars

\* The sessions and the threads of the two pollers.
NextFan ==
    \/ MeterStart
    \/ \E pid \in PlantIds : MeterSessionOpen(pid)
    \/ MeterSessionClose
    \/ EssMain
    \/ EssGather
    \/ EssWorkerStart
    \/ EssWorkerDone
    \/ EssResume
    \/ EssStoreDone

InitFan ==
    /\ InitProcesses
    /\ inbox = [p \in Pods |-> NoRow]
    /\ plants = PlantTable("huawei")
SpecFan == InitFan /\ [][NextFan]_vars

\* The ESS poller alone, on readings over the range of the registers.
NextEss ==
    \/ EssStart
    \/ \E e \in EssUnits : used["ess"] <= MaxEssPolls /\ PollEss(e, WideEssReadings)

InitEss ==
    /\ InitProcesses
    /\ inbox = [p \in Pods |-> NoRow]
    /\ plants = PlantTable("huawei")
SpecEss == InitEss /\ [][NextEss]_vars

\* The ESS poller with a unit at each plant, for as long as it runs: every
\* cycle polls each unit, with readings that lack the temperatures, a
\* required value, or nothing.
NextEssPool ==
    \/ EssStart
    \/ \E e \in PlantIds : PollEss(e, EssReadings)

InitEssPool ==
    /\ InitProcesses
    /\ inbox = [p \in Pods |-> NoRow]
    /\ plants = PlantTable("huawei")
SpecEssPool == InitEssPool /\ [][NextEssPool]_vars

\* The control executor beside the meter poller's field-bus sessions:
\* iterations that find a target and a PCC reading, interleaved with the
\* sessions of poll_device.
BusInputs ==
    {q \in CtlInputs : /\ q.db_ok /\ q.target /= Null /\ q.pcc /= Null
                       /\ q.ess = NoEssState /\ q.ess_write_ok}

NextBus ==
    \/ ExecutorStart
    \/ MeterStart
    \/ \E pid \in PlantIds : MeterSessionOpen(pid)
    \/ MeterSessionClose
    \/ \E p \in Pods : used["executor"] <= MaxCtlCycles /\ ControlCycle(p, BusInputs)

InitBus ==
    /\ InitProcesses
    /\ inbox = [p \in Pods |-> NoRow]
    /\ plants \in PlantTables
SpecBus == InitBus /\ [][NextBus]_vars

\* ============================== properties ================================
\* the heartbeat of a row as a number; no row and NULL rank below every value
HbRank(row) == IF row = NoRow \/ row.heartbeat = Null THEN 0 - 1 ELSE row.heartbeat

\* C1: for every pod, the heartbeat stored in the inbox never decreases from
\* one state to the next, whichever process (reporter, fetcher) writes: a
\* step that leaves a heartbeat in the row leaves one not lower than before.
C1_HeartbeatNeverDecreases ==
    [][\A p \in Pods :
          HbRank(inbox'[p]) >= 0 => HbRank(inbox'[p]) >= HbRank(inbox[p])]_vars

\* C2: a send_sync step of the reporter for a pod either leaves the pod's
\* row as it was (heartbeat, sum_setpoint, scheduled_reference, received_at),
\* which it does whenever the incoming heartbeat is not strictly greater than a
\* stored one, or replaces it with the incoming heartbeat and the time of the
\* upsert, which it does only when no heartbeat is stored or the incoming one
\* is strictly greater.
C2_StaleReplyKeepsRow ==
    [][\A p \in Pods :
          (snd[p].pc = "posted" /\ snd'[p].pc = "done") =>
              \/ /\ inbox'[p] = inbox[p]
                 /\ ~( /\ lastOp' /= lastOp
                       /\ lastOp'.hb /= Null
                       /\ lastOp'.hb > HbRank(inbox[p]) )
              \/ /\ HbRank(inbox[p]) < 0 \/ HbRank(inbox'[p]) > HbRank(inbox[p])
                 /\ lastOp'.kind = "sender"
                 /\ lastOp'.pod = p
                 /\ inbox'[p].heartbeat = lastOp'.hb
                 /\ inbox'[p].received_at = clock]_vars

\* the reporter's last upsert came with a lower heartbeat and later than the
\* stored row, and the row is the older one with the higher heartbeat
C2_StaleReplySeen ==
    /\ lastOp.kind = "sender"
    /\ lastOp.hb /= Null
    /\ inbox[lastOp.pod] /= NoRow
    /\ inbox[lastOp.pod].heartbeat /= Null
    /\ lastOp.hb < inbox[lastOp.pod].heartbeat
    /\ lastOp.at > inbox[lastOp.pod].received_at

\* C3: every POST carries as heartbeatMirrored the heartbeat that was stored
\* for the pod when it was read, for every stored integer (0 included), and
\* 1 when none is stored.
C3_MirrorEqualsStoredHeartbeat ==
    \A p \in Pods :
        snd[p].pc = "posted" =>
            snd[p].mirrored = (IF snd[p].stored = Null THEN 1 ELSE snd[p].stored)

\* C4: no field-bus session is opened to a device whose breaker entry is
\* younger than the cooldown.
C4_NoSessionWhileBreakerActive == poll.hot = {}

\* the last control iteration read a target and a PCC value less than
\* DEADBAND_KW apart
CycDeadband ==
    /\ cyc.outcome /= "none"
    /\ cyc.db_ok
    /\ cyc.target /= Null
    /\ cyc.pcc /= Null
    /\ Abs(cyc.target - cyc.pcc) < DEADBAND_KW

\* the last control iteration wrote to no device
CycNoWrite ==
    /\ cyc.ess_writes = <<>>
    /\ cyc.pv_writes = <<>>
    /\ ctl[cyc.pod].last_write_ts = cyc.before.last_write_ts

\* C5 (as the specification states it): a cycle within the deadband issues
\* no field-bus write and leaves last_cmd_kw and last_write_ts as they were.
C5_DeadbandCycleChangesNothing ==
    CycDeadband =>
        CycNoWrite /\ ctl[cyc.pod].last_cmd_kw = cyc.before.last_cmd_kw

\* C5 (with the first-cycle initialisation): a cycle within the deadband
\* issues no field-bus write and leaves last_write_ts as it was; last_cmd_kw
\* is as it was too, except in the regulator's first cycle with a PCC
\* reading, which sets it to that reading.
C5_DeadbandCycleWritesNothing ==
    CycDeadband =>
        /\ CycNoWrite
        /\ ctl[cyc.pod].last_cmd_kw =
              (IF cyc.before.first_run THEN cyc.pcc ELSE cyc.before.last_cmd_kw)

\* a deadband cycle of an initialised PV_ONLY regulator (target 100.5, PCC 100)
C5_DeadbandCycleSeen ==
    /\ CycDeadband
    /\ ~cyc.before.first_run
    /\ plants[cyc.pod].plant_type = "PV_ONLY"
    /\ cyc.target = 10050
    /\ cyc.pcc = 10000
    /\ cyc.before.last_cmd_kw /= cyc.pcc
    /\ ctl[cyc.pod].last_cmd_kw = cyc.before.last_cmd_kw

\* the value the regulator adds KP * error to in the last iteration
CycBase == IF cyc.before.first_run THEN cyc.pcc ELSE cyc.before.last_cmd_kw

\* C7: a cycle of a PV_ESS pod with target and PCC at least DEADBAND_KW
\* apart, MIN_WRITE_INTERVAL elapsed and an ESS row whose capacity fits the
\* direction of the error issues exactly one ESS write of
\* last_cmd_kw + KP * error, stores it as last_cmd_kw and issues no PV limit.
C7_EssSetpointWritten ==
    ( /\ cyc.outcome /= "none"
      /\ plants[cyc.pod].plant_type = "PV_ESS"
      /\ cyc.db_ok
      /\ cyc.outcome /= "error"
      /\ cyc.target /= Null
      /\ cyc.pcc /= Null
      /\ Abs(cyc.target - cyc.pcc) >= DEADBAND_KW
      /\ cyc.now - cyc.before.last_write_ts >= MIN_WRITE_INTERVAL
      /\ cyc.ess.present
      /\ \/ cyc.target - cyc.pcc > 0 /\ cyc.ess.cap_dis > 0
         \/ cyc.target - cyc.pcc < 0 /\ cyc.ess.cap_ch > 0 )
    => LET cmd == CycBase + (3 * (cyc.target - cyc.pcc)) \div 10
       IN  /\ cyc.ess_writes = <<cmd>>
           /\ ctl[cyc.pod].last_cmd_kw = cmd
           /\ cyc.pv_writes = <<>>

\* the last control iteration was one of a PV_ONLY pod with target and PCC
\* at least DEADBAND_KW apart
CycPvOnly ==
    /\ cyc.outcome /= "none"
    /\ plants[cyc.pod].plant_type = "PV_ONLY"
    /\ cyc.db_ok
    /\ cyc.target /= Null
    /\ cyc.pcc /= Null
    /\ Abs(cyc.target - cyc.pcc) >= DEADBAND_KW

\* C8: an actuating cycle of a PV_ONLY pod writes one PV limit of
\* last_cmd_kw + KP * error clamped to [0, normal_power] and stores that
\* value as last_cmd_kw, which therefore lies in [0, normal_power].
C8_PvOnlyLimitClamped ==
    CycPvOnly =>
        LET rated == plants[cyc.pod].normal_power
            raw == CycBase + (3 * (cyc.target - cyc.pcc)) \div 10
            limit == IF raw < 0 THEN 0 ELSE IF raw > rated THEN rated ELSE raw
        IN  /\ Len(cyc.pv_writes) >= 1
            /\ \A i \in 1..Len(cyc.pv_writes) : cyc.pv_writes[i].kw = limit
            /\ cyc.ess_writes = <<>>
            /\ ctl[cyc.pod].last_cmd_kw = limit
            /\ 0 <= ctl[cyc.pod].last_cmd_kw
            /\ ctl[cyc.pod].last_cmd_kw <= rated

\* rated 250, target 300, PCC 260, last_cmd 260: the limit written is 250
C8_SaturatedLimitSeen ==
    /\ CycPvOnly
    /\ cyc.target = 30000
    /\ cyc.pcc = 26000
    /\ CycBase = 26000
    /\ Len(cyc.pv_writes) >= 1
    /\ cyc.pv_writes[1].kw = 25000
    /\ ctl[cyc.pod].last_cmd_kw = 25000

\* C9: every connection taken from a pool is put back by the operation that
\* took it: between operations no process holds a checked-out connection.
C9_ConnectionsReturned == \A q \in Procs : used[q] = 0

\* C10: in a meter-poller cycle a plant whose read failed has a breaker entry
\* and no row written, and the plants read successfully have their rows.
C10_FailedReadRecordedAndSkipped ==
    poll.proc = "meter" =>
        /\ \A p \in poll.read_failed :
              failed["meter"][p] /= Null /\ p \notin poll.stored
        /\ \A p \in poll.read_ok : p \in poll.stored

\* C11: a meter-poller cycle opens no session to a plant whose breaker entry
\* is younger than the cooldown, and a cycle in which the read of plant P
\* timed out leaves P with an active breaker entry, so that the poll attempts
\* of the following COOLDOWN_MINUTES are no-ops for P.
C11_TimeoutOpensBreaker ==
    [][(poll' /= poll /\ poll'.proc = "meter") =>
          /\ poll'.hot = {}
          /\ \A p \in poll'.read_failed :
                should_skip(failed'["meter"], p, clock')]_vars

\* C12: every exchange of the reporter that reached requests.post appends one
\* row for its pod to the send log: with the status of the response (200 or
\* not), or with a transport marker (Null) when the request raised; also when
\* the inbox upsert of the exchange failed.
C12_EveryPostLogged ==
    [][\A p \in Pods :
          (snd[p].pc = "posted" /\ snd'[p].pc = "done") =>
              \E st \in {200, 500, Null} :
                  send_log' = send_log (+) SetToBag({[pod |-> p, status_code |-> st]})]_vars

\* C13: an exchange of pod p that does not end with a logged 200 (another
\* status, a transport failure) leaves the inbox as it was, the row of p
\* included, and leaves the tasks of the other pods as they were.
C13_FailedExchangeKeepsInbox ==
    [][\A p \in Pods :
          ( /\ snd[p].pc = "posted"
            /\ snd'[p].pc = "done"
            /\ send_log' /= send_log (+) SetToBag({[pod |-> p, status_code |-> 200]}) )
          => /\ inbox' = inbox
             /\ \A q \in Pods \ {p} : snd'[q] = snd[q]]_vars

\* in one cycle the exchange of one pod ended with status 500 and left no
\* row, while the exchange of another pod ended with 200 and stored its row
C13_FailedExchangeSeen ==
    \E p \in Pods, q \in Pods :
        /\ p /= q
        /\ snd[p].pc = "done"
        /\ snd[q].pc = "done"
        /\ BagIn([pod |-> p, status_code |-> 500], send_log)
        /\ inbox[p] = NoRow
        /\ BagIn([pod |-> q, status_code |-> 200], send_log)
        /\ inbox[q] /= NoRow

\* C14: a failing store operation (the batch telemetry insert of the meter
\* poller, the latest-plant-data query of the reporter) ends the cycle only:
\* the loop of neither pipeline ever terminates.
C14_StoreErrorKeepsLoop == \A q \in {"meter", "sender"} : proc[q] /= "dead"

\* C15: the regulator of a pod has no terminal state: whatever error a cycle
\* meets (a failing query, no store connection, a failing field-bus write),
\* the regulator thread of every pod stays alive.
C15_RegulatorsNeverStop == \A p \in Pods : ctl[p].alive

\* C16: a control cycle that finds no inbox target or no PCC telemetry for
\* its pod issues no field-bus write, leaves last_write_ts and the thread of
\* its regulator as they were, and leaves the regulators of the other pods
\* untouched.
C16_MissingDataSkipsCycle ==
    [][( /\ cyc' /= cyc
         /\ cyc'.db_ok
         /\ (cyc'.target = Null \/ cyc'.pcc = Null) )
       => /\ cyc'.ess_writes = <<>>
          /\ cyc'.pv_writes = <<>>
          /\ ctl'[cyc'.pod].last_write_ts = ctl[cyc'.pod].last_write_ts
          /\ ctl'[cyc'.pod].alive
          /\ \A q \in Pods \ {cyc'.pod} : ctl'[q] = ctl[q]]_vars

\* an initialised regulator of a PV_ONLY pod met a cycle with a PCC reading
\* and no target, and skipped it
C16_MissingTargetSeen ==
    /\ cyc.outcome = "missing_data"
    /\ cyc.db_ok
    /\ cyc.target = Null
    /\ cyc.pcc /= Null
    /\ plants[cyc.pod].plant_type = "PV_ONLY"
    /\ ~cyc.before.first_run
    /\ cyc.pv_writes = <<>>

\* a cos_phi value (in hundredths) that is null or lies in [-1, 1]
CosPhiInUnit(x) == x = Null \/ (0 - 100 <= x /\ x <= 100)

\* C17: the cos_phi of every PCC telemetry row, and of every record the meter
\* poller produces for the store, is null or lies in [-1, 1], whatever the
\* device returned.
C17_CosPhiInRange ==
    /\ \A p \in PlantIds : CosPhiInUnit(plant_data[p].cos_phi)
    /\ \A r \in poll.handed : CosPhiInUnit(r.cos_phi)

\* C18: an ESS telemetry insert whose (plant_id, measured_at) key is in the
\* table already is ignored without error: the poll of the unit does not
\* fail, so no breaker failure is recorded for it.
C18_DuplicateInsertIgnored ==
    (poll.proc = "ess" /\ poll.dup) =>
        \A e \in poll.opened : failed["ess"][e] = Null /\ e \notin poll.recorded

\* C19: a meter-poller cycle in which plants were read successfully ends with
\* a PCC telemetry row written for each of them.
C19_ReadPlantsStored ==
    (poll.proc = "meter" /\ poll.read_ok /= {}) =>
        \A p \in poll.read_ok :
            p \in poll.stored /\ plant_data[p].measured_at /= Null

\* C20: no device has two field-bus sessions at once: the control executor
\* writes a PV limit to a logger only while the meter poller has no session
\* open to that logger.
C20_NoOverlappingSessions ==
    ~( /\ cyc.pv_writes /= <<>>
       /\ cyc.meter_session = plants[cyc.pod].plant_id )

\* a percentage
IsPercent(x) == 0 <= x /\ x <= 100

\* the row the last poll_ess call wrote has capacities that are not negative
\* and that together do not exceed the total capacity read
CapacitiesWithinTotal ==
    \A e \in poll.stored :
        /\ ess_data[e].charge_kwh >= 0
        /\ ess_data[e].discharge_kwh >= 0
        /\ ess_data[e].charge_kwh + ess_data[e].discharge_kwh <= poll.reading.total

\* C21 (as the specification states it): for every ESS reading with soc in
\* [0, 100], whatever total capacity and SOC limits the device reports, the
\* available charge and discharge are >= 0 and their sum is <= the total
\* capacity.
C21_CapacitiesWithinTotalAnyLimits ==
    (poll.proc = "ess" /\ poll.stored /= {} /\ IsPercent(poll.reading.soc))
        => CapacitiesWithinTotal

\* C21 (with the range of the limits): for every ESS reading with soc and
\* both allowed SOC limits in [0, 100] and a total capacity >= 0, the
\* available charge and discharge are >= 0 and their sum is <= the total
\* capacity.
C21_CapacitiesWithinTotal ==
    ( /\ poll.proc = "ess" /\ poll.stored /= {}
      /\ IsPercent(poll.reading.soc)
      /\ IsPercent(poll.reading.min_soc)
      /\ IsPercent(poll.reading.max_soc)
      /\ poll.reading.total >= 0 )
        => CapacitiesWithinTotal

\* total 100 kWh, soc 20, limits 0 and 100: charge 80, discharge 20, the sum
\* is the total
C21_FullRangeSeen ==
    /\ poll.proc = "ess"
    /\ poll.stored = {"plant2"}
    /\ poll.reading.total = 100 /\ poll.reading.soc = 20
    /\ poll.reading.min_soc = 0 /\ poll.reading.max_soc = 100
    /\ ess_data["plant2"].charge_kwh = 80
    /\ ess_data["plant2"].discharge_kwh = 20

\* C22: a poll in which the allowed SOC limits cannot be read but SOC and
\* total capacity can still writes a row for the unit and records no breaker
\* failure.
C22_MissingLimitsDefaulted ==
    ( /\ poll.proc = "ess"
      /\ poll.reading.total /= Null /\ poll.reading.soc /= Null
      /\ poll.reading.min_soc = Null /\ poll.reading.max_soc = Null )
        => \A e \in poll.opened :
              /\ e \in poll.stored
              /\ e \notin poll.recorded
              /\ failed["ess"][e] = Null

\* C23: every signed 32-bit value written as two registers, high word
\* first, and every signed 16-bit value held in one register, is decoded
\* by convert_registers_to_scaled_value (signed, gain 1) to itself.
C23_RegistersRoundTrip == wire.decoded => wire.out = wire.v

\* the lowest 32-bit value went out as (0x8000, 0x0000) and came back
C23_LowestValueSeen ==
    /\ wire.decoded
    /\ wire.v = Int32Min
    /\ wire.regs = <<32768, 0>>
    /\ wire.out = Int32Min

\* the entry of the call's id was present and younger than the cooldown when
\* the call compared it
CallSawLiveEntry(c) == c.entry0 /= Null /\ c.now - c.entry0 < COOLDOWN_MINUTES

\* what a finished call of a thread, run with no other thread in between,
\* returned and left in the table
CallDone(c) ==
    LET entry == failed["executor"][c.id]
    IN  IF c.op = "should_skip"
        THEN /\ c.result = (IF CallSawLiveEntry(c) THEN "True" ELSE "False")
             /\ entry = (IF CallSawLiveEntry(c) THEN c.entry0 ELSE Null)
        ELSE IF c.op = "on_failure"
        THEN c.result = "None" /\ entry = c.now /\ entry /= Null
        ELSE c.result = "None" /\ entry = Null

\* C24: should_skip(id) returns true exactly when an entry exists for id and
\* less than COOLDOWN_MINUTES have passed since the time in it; it removes
\* an older entry and returns false; on_failure(id) sets the entry to the
\* current time and on_success(id) removes it; an entry appears only by
\* on_failure, so after on_success(id) should_skip(id) is false until then.
C24_BreakerCalls ==
    /\ [](thr["t1"].pc = "idle" /\ thr["t1"].op /= "none" => CallDone(thr["t1"]))
    /\ [][\A id \in Pods :
             (failed["executor"][id] = Null /\ failed'["executor"][id] /= Null)
                 => thr'["t1"].op = "on_failure" /\ thr'["t1"].id = id]_vars

\* should_skip found an entry exactly COOLDOWN_MINUTES old, removed it and
\* returned false
C24_StaleEntryCleared ==
    /\ thr["t1"].op = "should_skip"
    /\ thr["t1"].result = "False"
    /\ thr["t1"].entry0 /= Null
    /\ thr["t1"].now - thr["t1"].entry0 = COOLDOWN_MINUTES
    /\ failed["executor"][thr["t1"].id] = Null

\* C25: whatever the interleaving of should_skip, on_failure and on_success
\* calls of different threads, no call fails.
C25_NoCallFails == \A t \in Threads : thr[t].result /= "KeyError"

\* C26: every iteration of a control loop ends with the padding sleep to
\* CONTROL_INTERVAL, the iterations skipped for missing data, for the
\* deadband or for MIN_WRITE_INTERVAL included.
C26_EveryIterationSleeps == cyc.outcome /= "none" => cyc.slept

\* C27: the send_sync task of every plant with a latest PCC row, with an ESS
\* telemetry row or without one, sends its POST with heartbeatMirrored in
\* the payload.
C27_EveryTaskPosts ==
    [][\A p \in Pods :
          (snd[p].pc = "ready" /\ snd'[p] /= snd[p])
              => snd'[p].pc = "posted" /\ snd'[p].mirrored /= Null]_vars

\* C28: every record of the meter poller with a sum_active_power reading, a
\* reading of 0 included, has available_power_max and reference_power equal
\* to |sum_active_power| and available_power_min equal to 0; they are unset
\* only without a reading.
C28_AvailablePowerFromReading ==
    \A r \in poll.handed :
        /\ r.available_power_min = 0
        /\ r.sum_active_power /= Null
              => /\ r.available_power_max = Abs(r.sum_active_power)
                 /\ r.reference_power = Abs(r.sum_active_power)
        /\ r.sum_active_power = Null
              => /\ r.available_power_max = Null
                 /\ r.reference_power = Null

\* the last iteration issued a field-bus write
CycActuated == cyc.ess_writes /= <<>> \/ cyc.pv_writes /= <<>>

\* C29: a regulator takes last_cmd_kw from the PCC reading in its first
\* iteration that has one, whether or not the iteration goes on to actuate,
\* and stays uninitialised until then; in every later iteration last_cmd_kw
\* changes only when the iteration actuates.
C29_BootstrapOnce ==
    [][\A p \in Pods :
          LET has_pcc == cyc' /= cyc /\ cyc'.pod = p /\ cyc'.db_ok /\ cyc'.pcc /= Null
              acted == cyc' /= cyc /\ cyc'.pod = p
                       /\ (cyc'.ess_writes /= <<>> \/ cyc'.pv_writes /= <<>>)
          IN  /\ (ctl[p].first_run /\ has_pcc)
                    => /\ ~ctl'[p].first_run
                       /\ cyc'.before.first_run
                       /\ ~acted => ctl'[p].last_cmd_kw = cyc'.pcc
                       /\ acted => ctl'[p].last_cmd_kw =
                              pv_clamp(cyc'.pcc + KP(cyc'.target - cyc'.pcc),
                                       plants[p].normal_power)
              /\ (ctl[p].first_run /\ ~has_pcc)
                    => /\ ctl'[p].first_run
                       /\ ctl'[p].last_cmd_kw = ctl[p].last_cmd_kw
              /\ ~ctl[p].first_run
                    => /\ ~ctl'[p].first_run
                       /\ ctl'[p].last_cmd_kw /= ctl[p].last_cmd_kw => acted]_vars

\* an initialised regulator ran an iteration with a PCC reading other than
\* its last_cmd_kw, did not actuate and kept last_cmd_kw
C29_LaterCycleKeepsCommand ==
    /\ cyc.outcome = "deadband"
    /\ ~cyc.before.first_run
    /\ cyc.pcc /= cyc.before.last_cmd_kw
    /\ ~CycActuated
    /\ ctl[cyc.pod].last_cmd_kw = cyc.before.last_cmd_kw

\* C30: an iteration whose PV-limit write failed ends as an error: it does
\* not reach on_success and does not store the limit as last_cmd_kw.
C30_FailedWriteSurfaces ==
    (\E i \in 1..Len(cyc.pv_writes) : ~cyc.pv_writes[i].ok)
        => /\ cyc.outcome = "error"
           /\ ctl[cyc.pod].last_cmd_kw = CycBase

\* C31: a control iteration whose field-bus write failed leaves a breaker
\* entry for its pod, so that the regulator is suppressed for the cooldown.
C31_FailedWriteOpensBreaker ==
    (\E i \in 1..Len(cyc.pv_writes) : ~cyc.pv_writes[i].ok)
        => /\ failed["executor"][cyc.pod] /= Null
           /\ should_skip(failed["executor"], cyc.pod, clock)

\* C32: every Fronius PV-limit actuation makes exactly two register writes,
\* the enable register with the enable value first and the limit register
\* second, and the limit written is an integer percentage between 0 and 100,
\* whatever the commanded limit and the (positive) rated power.
C32_FroniusEnableThenLimit ==
    wire.rated /= Null =>
        /\ Len(wire.regs) = 2
        /\ wire.regs[1].address = "enable_register.address"
        /\ wire.regs[1].value = "enable_register.enable_value"
        /\ wire.regs[2].address = "activePowerLimitPercent.address"
        /\ wire.regs[2].value \in 0..100

\* a limit above the rated power was commanded and 100 percent was written,
\* after an enable write that failed
C32_OverRatedClamped ==
    /\ wire.rated /= Null
    /\ wire.v > wire.rated
    /\ ~wire.regs[1].ok
    /\ wire.regs[2].value = 100

\* the field-bus sessions a poller has open: the meter poller's one session,
\* the sessions of the ESS poller's worker threads
meter_sessions == IF bus = NoneStr THEN 0 ELSE 1
ess_sessions == fan.open

\* C33: neither the meter poller nor the ESS poller ever has more than 10
\* field-bus sessions open at once, however many plants or units there are.
C33_SessionsWithinLimit ==
    /\ meter_sessions <= 10
    /\ ess_sessions <= 10

\* what the thread of each poller's event loop is blocked in: poll_device is
\* called on the loop's thread and reads there; the insert of poll_ess runs
\* between two awaits of the coroutine
meter_loop_io == IF bus = NoneStr THEN "none" ELSE "bus_read"
ess_loop_io == fan.loop_io

\* C34: the thread that runs the event loop of a poller is never inside
\* blocking I/O: no field-bus read of the meter poller and no store write of
\* the ESS poller is made on it.
C34_LoopThreadNeverBlocks ==
    /\ meter_loop_io = "none"
    /\ ess_loop_io = "none"

\* C35: after a poll of an ESS unit whose insert met no duplicate key, the
\* poller is still running (the other units are polled) and: when a required
\* value (total capacity, SOC, allowed min / max SOC) could not be read, no row
\* is stored and the unit has a breaker entry; otherwise a row is stored, with
\* null temperature aggregates exactly when the temperatures could not be
\* read, and the unit has no breaker entry.
C35_EssPollOutcome ==
    (poll.proc = "ess" /\ ~poll.dup) =>
        \A e \in poll.opened :
            /\ proc["ess"] = "running"
            /\ IF missing_required(poll.reading)
               THEN e \notin poll.stored /\ failed["ess"][e] /= Null
               ELSE /\ e \in poll.stored
                    /\ failed["ess"][e] = Null
                    /\ ess_data[e].temps = poll.reading.temps_ok
====
